---- MODULE Spec2Model ----
(***************************************************************************)
(* Model of utils/security_config.py: the DANGEROUS_PATHS / EXCLUDED_DIRS   *)
(* constants and is_dangerous_path(), together with the part of            *)
(* pathlib.Path.resolve() the function depends on.                         *)
(*                                                                         *)
(* Text is a sequence of one-character strings, so that str.startswith,    *)
(* string equality and separator handling are computed, not assumed.       *)
(* A path object is a record [ok, anchor, parts]: anchor is the root text  *)
(* ("/" or "C:\"), parts the sequence of component names.                  *)
(***************************************************************************)
EXTENDS Integers, Sequences, FiniteSets, TLC

VARIABLES host, fs, order, DANGEROUS_PATHS, EXCLUDED_DIRS, threads, inputs,
          pc, path, resolved, resolved_str, idx, result, truth, last

vars == <<host, fs, order, DANGEROUS_PATHS, EXCLUDED_DIRS, threads, inputs,
          pc, path, resolved, resolved_str, idx, result, truth, last>>

(***************************************************************************)
(* Bounds                                                                  *)
(***************************************************************************)
\* symbolic links followed in one resolution before it is reported a loop
MaxLinks == 2
\* rotations of the base iteration order a process may start with
NumRot == 2

\* os.name of the host the process runs on
Hosts == {"posix", "nt"}

(***************************************************************************)
(* Characters and names                                                    *)
(***************************************************************************)
SL == "/"
BS == "\\"
NUL == "NUL"

etc == <<"e", "t", "c">>
usr == <<"u", "s", "r">>
bin == <<"b", "i", "n">>
var == <<"v", "a", "r">>
root == <<"r", "o", "o", "t">>
home == <<"h", "o", "m", "e">>
tmp == <<"t", "m", "p">>
private == <<"p", "r", "i", "v", "a", "t", "e">>
passwd == <<"p", "a", "s", "s", "w", "d">>
ssh == <<"s", "s", "h">>
cfg == <<"c", "f", "g">>
proj == <<"p", "r", "o", "j">>
work == <<"w", "o", "r", "k">>
link == <<"l", "i", "n", "k">>
loop == <<"l", "o", "o", "p">>
etcbackup == etc \o <<"b", "a", "c", "k", "u", "p">>
my_etc_files == <<"m", "y", "_">> \o etc \o <<"_", "f", "i", "l", "e", "s">>
dot == <<".">>
dotdot == <<".", ".">>
CDrive == <<"C", ":">>
cDriveLower == <<"c", ":">>
Windows == <<"W", "i", "n", "d", "o", "w", "s">>
WINDOWS == <<"W", "I", "N", "D", "O", "W", "S">>
windows == <<"w", "i", "n", "d", "o", "w", "s">>
Windows2 == Windows \o <<"2">>
ProgramFiles == <<"P", "r", "o", "g", "r", "a", "m", " ", "F", "i", "l", "e", "s">>
Users == <<"U", "s", "e", "r", "s">>
System32 == <<"S", "y", "s", "t", "e", "m", "3", "2">>
system32 == <<"s", "y", "s", "t", "e", "m", "3", "2">>

(***************************************************************************)
(* str operations                                                          *)
(***************************************************************************)
\* str.startswith
StartsWith(s, p) == Len(p) <= Len(s) /\ SubSeq(s, 1, Len(p)) = p

\* str.lower, for the letters that occur in the modelled names
Lower(c) ==
    CASE c = "C" -> "c" [] c = "W" -> "w" [] c = "I" -> "i" [] c = "N" -> "n"
      [] c = "D" -> "d" [] c = "O" -> "o" [] c = "S" -> "s" [] c = "P" -> "p"
      [] c = "F" -> "f" [] c = "U" -> "u" [] OTHER -> c

\* str.upper, for the drive letter
Upper(c) == IF c = "c" THEN "C" ELSE c

LowerStr(s) == [i \in 1..Len(s) |-> Lower(s[i])]

\* str.split on any of the separators seps, empty components kept
RECURSIVE SplitFrom(_, _, _, _)
SplitFrom(s, seps, i, cur) ==
    IF i > Len(s) THEN <<cur>>
    ELSE IF s[i] \in seps THEN <<cur>> \o SplitFrom(s, seps, i + 1, <<>>)
    ELSE SplitFrom(s, seps, i + 1, Append(cur, s[i]))

Split(s, seps) == SplitFrom(s, seps, 1, <<>>)

\* sep.join(parts)
RECURSIVE Join(_, _)
Join(parts, sep) ==
    IF parts = <<>> THEN <<>>
    ELSE IF Len(parts) = 1 THEN parts[1]
    ELSE parts[1] \o <<sep>> \o Join(Tail(parts), sep)

Front(s) == SubSeq(s, 1, Len(s) - 1)

(***************************************************************************)
(* Path objects                                                            *)
(***************************************************************************)
Failed == [ok |-> FALSE, anchor |-> <<>>, parts |-> <<>>]
MkPath(a, p) == [ok |-> TRUE, anchor |-> a, parts |-> p]

\* os.sep of the host
HostSep(h) == IF h = "nt" THEN BS ELSE SL

\* str(path)
Str(h, r) == r.anchor \o Join(r.parts, HostSep(h))

\* path.parent: the anchor is its own parent
Parent(r) == [r EXCEPT !.parts = IF r.parts = <<>> THEN <<>> ELSE Front(r.parts)]

\* os.getcwd() of the process
Cwd(h) == IF h = "nt" THEN <<work>> ELSE <<tmp, work>>

(***************************************************************************)
(* Path.resolve(), POSIX flavour: relative paths start at the working      *)
(* directory, empty and "." components are dropped, ".." pops, a symbolic  *)
(* link is replaced by its (absolute) target; a link loop (RuntimeError,   *)
(* as pathlib raises it up to Python 3.12) or an embedded null byte        *)
(* (ValueError) raises.                                                    *)
(***************************************************************************)
RECURSIVE PosixWalk(_, _, _, _)
PosixWalk(links, stack, rest, budget) ==
    IF rest = <<>> THEN MkPath(<<SL>>, stack)
    ELSE LET c == Head(rest) IN
         IF c = <<>> \/ c = dot THEN PosixWalk(links, stack, Tail(rest), budget)
         ELSE IF c = dotdot
              THEN PosixWalk(links, IF stack = <<>> THEN <<>> ELSE Front(stack),
                             Tail(rest), budget)
         ELSE LET new == Append(stack, c) IN
              IF new \in DOMAIN links
              THEN IF budget = 0 THEN Failed
                   ELSE PosixWalk(links, <<>>, links[new] \o Tail(rest), budget - 1)
              ELSE PosixWalk(links, new, Tail(rest), budget)

PosixResolve(f, text) ==
    IF \E i \in 1..Len(text) : text[i] = NUL THEN Failed
    ELSE LET comps == Split(text, {SL})
             start == IF StartsWith(text, <<SL>>) THEN <<>> ELSE Cwd("posix")
         IN PosixWalk(f.links, start, comps, MaxLinks)

(***************************************************************************)
(* Path.resolve(), Windows flavour: both separators split, the drive       *)
(* letter is upper-cased, a path without drive takes the drive of the      *)
(* working directory, ".." is collapsed, and a component that exists       *)
(* directly under the drive root is returned with the name stored on disk  *)
(* (the final path name); components that do not exist are kept verbatim.  *)
(***************************************************************************)
OnDisk(f, stack, c) ==
    IF stack = <<>> /\ \E e \in f.ondisk : LowerStr(e) = LowerStr(c)
    THEN CHOOSE e \in f.ondisk : LowerStr(e) = LowerStr(c)
    ELSE c

RECURSIVE NtWalk(_, _, _, _)
NtWalk(f, drive, stack, rest) ==
    IF rest = <<>> THEN MkPath(drive \o <<BS>>, stack)
    ELSE LET c == Head(rest) IN
         IF c = <<>> \/ c = dot THEN NtWalk(f, drive, stack, Tail(rest))
         ELSE IF c = dotdot
              THEN NtWalk(f, drive, IF stack = <<>> THEN <<>> ELSE Front(stack), Tail(rest))
         ELSE NtWalk(f, drive, Append(stack, OnDisk(f, stack, c)), Tail(rest))

HasDrive(text) == Len(text) >= 2 /\ text[2] = ":"

NtResolve(f, text) ==
    IF \E i \in 1..Len(text) : text[i] = NUL THEN Failed
    ELSE LET body == IF HasDrive(text) THEN SubSeq(text, 3, Len(text)) ELSE text
             rooted == body # <<>> /\ body[1] \in {SL, BS}
             drive == IF HasDrive(text) THEN <<Upper(text[1]), ":">> ELSE CDrive
             start == IF rooted THEN <<>> ELSE Cwd("nt")
         IN NtWalk(f, drive, start, Split(body, {SL, BS}))

\* path.resolve() on the host
Resolve(h, f, text) == IF h = "nt" THEN NtResolve(f, text) ELSE PosixResolve(f, text)

(***************************************************************************)
(* The module constants                                                    *)
(***************************************************************************)
D_root == <<SL>>
D_etc == <<SL>> \o etc
D_usr == <<SL>> \o usr
D_bin == <<SL>> \o bin
D_var == <<SL>> \o var
D_rootdir == <<SL>> \o root
D_home == <<SL>> \o home
D_C == CDrive \o <<BS>>
D_Windows == CDrive \o <<BS>> \o Windows
D_ProgramFiles == CDrive \o <<BS>> \o ProgramFiles
D_Users == CDrive \o <<BS>> \o Users

\* the set literal, in the order it is written
DangerousLiteral ==
    <<D_root, D_etc, D_usr, D_bin, D_var, D_rootdir, D_home,
      D_C, D_Windows, D_ProgramFiles, D_Users>>

DangerousPathsInit == {DangerousLiteral[i] : i \in 1..Len(DangerousLiteral)}

ExcludedDirsInit ==
    {"__pycache__", ".venv", "venv", "env", ".env", "*.egg-info", ".eggs", "wheels",
     ".Python", ".mypy_cache", ".pytest_cache", ".tox", "htmlcov", ".coverage",
     "coverage", "node_modules", ".next", ".nuxt", "bower_components", ".sass-cache",
     ".git", ".svn", ".hg", "build", "dist", "target", "out", ".idea", ".vscode",
     ".sublime", ".atom", ".brackets", ".cache", ".temp", ".tmp", "*.swp", "*.swo",
     "*~", ".DS_Store", "Thumbs.db", ".gradle", ".m2", "_build", "site", ".expo",
     ".flutter", "vendor"}

\* Iteration order of a set is fixed for the life of a process and arbitrary
\* between processes (string hashing is seeded per process).
Rotate(s, k) == [i \in 1..Len(s) |-> s[((i - 1 + k) % Len(s)) + 1]]
Reverse(s) == [i \in 1..Len(s) |-> s[Len(s) + 1 - i]]
Orders ==
    UNION {{Rotate(DangerousLiteral, k), Reverse(Rotate(DangerousLiteral, k))} :
           k \in 0..(NumRot - 1)}

(***************************************************************************)
(* The environment: hosts, filesystems, callers                            *)
(***************************************************************************)

LoopLink == <<tmp, loop>> :> <<tmp, loop>>
PosixPlain == [links |-> LoopLink, ondisk |-> {}]
PosixLinkSafe == [links |-> LoopLink @@ (<<tmp, link>> :> <<tmp, proj>>), ondisk |-> {}]
PosixLinkEtc == [links |-> LoopLink @@ (<<tmp, link>> :> <<etc>>), ondisk |-> {}]
PosixEtcLinked == [links |-> LoopLink @@ (<<etc>> :> <<private, etc>>), ondisk |-> {}]
NtStandard == [links |-> <<>>, ondisk |-> {Windows, ProgramFiles, Users}]
NtUpperCase == [links |-> <<>>, ondisk |-> {WINDOWS, ProgramFiles, Users}]

Layouts(h) ==
    IF h = "nt" THEN {NtStandard, NtUpperCase}
    ELSE {PosixPlain, PosixLinkSafe, PosixLinkEtc, PosixEtcLinked}

P(parts) == <<SL>> \o Join(parts, SL)
W(parts) == CDrive \o <<BS>> \o Join(parts, BS)

PosixCandidates ==
    {P(<<etc, passwd>>), P(<<etc, ssh, cfg>>), P(<<usr, work, bin>>),
     P(<<tmp, proj>>), P(<<tmp, etcbackup>>), P(<<tmp, my_etc_files>>),
     P(<<etcbackup>>), P(<<tmp, dotdot, etc, passwd>>),
     Join(<<dotdot, dotdot, etc, passwd>>, SL), P(<<tmp, link, passwd>>),
     P(<<tmp, loop>>), P(<<tmp>>) \o <<SL, NUL>>, D_etc \o <<BS>> \o work}

NtCandidates ==
    {W(<<Windows, System32>>), cDriveLower \o <<BS>> \o Join(<<windows, system32>>, BS),
     CDrive \o <<SL>> \o Join(<<Windows, System32>>, SL), W(<<Windows2>>),
     W(<<work, proj>>), W(<<Users, work>>)}

Candidates == DangerousPathsInit \cup PosixCandidates \cup NtCandidates

ConcCandidates(h) ==
    IF h = "nt" THEN {D_C, W(<<Windows, System32>>), W(<<work, proj>>)}
    ELSE {P(<<etc, passwd>>), P(<<tmp, proj>>), P(<<tmp, link, passwd>>), P(<<tmp, loop>>)}

Threads == {1, 2}

NoCall == [valid |-> FALSE, path |-> <<>>, truth |-> Failed, verdict |-> FALSE]

(***************************************************************************)
(* State                                                                   *)
(***************************************************************************)
Locals ==
    /\ pc = [t \in Threads |-> "idle"]
    /\ path = [t \in Threads |-> <<>>]
    /\ resolved = [t \in Threads |-> Failed]
    /\ resolved_str = [t \in Threads |-> <<>>]
    /\ idx = [t \in Threads |-> 0]
    /\ result = [t \in Threads |-> FALSE]
    /\ truth = [t \in Threads |-> Failed]
    /\ last = NoCall

Module ==
    /\ host \in Hosts
    /\ fs \in Layouts(host)
    /\ order \in Orders
    /\ DANGEROUS_PATHS = DangerousPathsInit
    /\ EXCLUDED_DIRS = ExcludedDirsInit

\* a caller that validates one path at a time
Init == Module /\ Locals /\ threads = {1} /\ inputs = Candidates

\* a caller that validates from two threads
InitConc == Module /\ Locals /\ threads = Threads /\ inputs = ConcCandidates(host)

env == <<host, order, DANGEROUS_PATHS, EXCLUDED_DIRS, threads, inputs>>

(***************************************************************************)
(* is_dangerous_path, one step per statement                               *)
(***************************************************************************)
\* Call with a verdict cache keyed by the candidate text
CallCached(t, p) ==
    /\ t \in threads /\ p \in inputs
    /\ pc[t] = "idle"
    /\ path' = [path EXCEPT ![t] = p]
    /\ IF last.valid /\ last.path = p
       THEN /\ pc' = [pc EXCEPT ![t] = "done"]
            /\ result' = [result EXCEPT ![t] = last.verdict]
            /\ truth' = [truth EXCEPT ![t] = Resolve(host, fs, p)]
       ELSE /\ pc' = [pc EXCEPT ![t] = "resolve"]
            /\ UNCHANGED <<result, truth>>
    /\ UNCHANGED <<env, fs, resolved, resolved_str, idx, last>>

\* entry: is_dangerous_path(path)
Call(t, p) ==
    /\ t \in threads /\ p \in inputs
    /\ pc[t] = "idle"
    /\ pc' = [pc EXCEPT ![t] = "resolve"]
    /\ path' = [path EXCEPT ![t] = p]
    /\ UNCHANGED <<env, fs, resolved, resolved_str, idx, result, truth, last>>

\* ResolveStep with path.absolute() in place of path.resolve(): the text is
\* anchored but "..", "." and links are left as written
Lexical(h, text) ==
    IF h = "nt"
    THEN LET body == IF HasDrive(text) THEN SubSeq(text, 3, Len(text)) ELSE text
             rooted == body # <<>> /\ body[1] \in {SL, BS}
         IN MkPath(CDrive \o <<BS>>,
                   (IF rooted THEN <<>> ELSE Cwd(h))
                   \o SelectSeq(Split(body, {SL, BS}), LAMBDA c : c # <<>>))
    ELSE MkPath(<<SL>>,
                (IF StartsWith(text, <<SL>>) THEN <<>> ELSE Cwd(h))
                \o SelectSeq(Split(text, {SL}), LAMBDA c : c # <<>>))

ResolveStepLexical(t) ==
    /\ pc[t] = "resolve"
    /\ LET r == Resolve(host, fs, path[t])
           a == Lexical(host, path[t]) IN
       /\ truth' = [truth EXCEPT ![t] = r]
       /\ IF r.ok
          THEN /\ resolved' = [resolved EXCEPT ![t] = a]
               /\ resolved_str' = [resolved_str EXCEPT ![t] = Str(host, a)]
               /\ pc' = [pc EXCEPT ![t] = "root"]
          ELSE /\ pc' = [pc EXCEPT ![t] = "except"]
               /\ UNCHANGED <<resolved, resolved_str>>
    /\ UNCHANGED <<env, fs, path, idx, result, last>>

\* resolved = path.resolve(); resolved_str = str(resolved)
ResolveStep(t) ==
    /\ pc[t] = "resolve"
    /\ LET r == Resolve(host, fs, path[t]) IN
       /\ truth' = [truth EXCEPT ![t] = r]
       /\ IF r.ok
          THEN /\ resolved' = [resolved EXCEPT ![t] = r]
               /\ resolved_str' = [resolved_str EXCEPT ![t] = Str(host, r)]
               /\ pc' = [pc EXCEPT ![t] = "root"]
          ELSE /\ pc' = [pc EXCEPT ![t] = "except"]
               /\ UNCHANGED <<resolved, resolved_str>>
    /\ UNCHANGED <<env, fs, path, idx, result, last>>

\* CheckRoot with the root test left out
CheckRootSkipped(t) ==
    /\ pc[t] = "root"
    /\ pc' = [pc EXCEPT ![t] = "loop"]
    /\ idx' = [idx EXCEPT ![t] = 1]
    /\ UNCHANGED result
    /\ UNCHANGED <<env, fs, path, resolved, resolved_str, truth, last>>

\* if resolved.parent == resolved: return True
CheckRoot(t) ==
    /\ pc[t] = "root"
    /\ IF Parent(resolved[t]) = resolved[t]
       THEN /\ result' = [result EXCEPT ![t] = TRUE]
            /\ pc' = [pc EXCEPT ![t] = "done"]
            /\ UNCHANGED idx
       ELSE /\ pc' = [pc EXCEPT ![t] = "loop"]
            /\ idx' = [idx EXCEPT ![t] = 1]
            /\ UNCHANGED result
    /\ UNCHANGED <<env, fs, path, resolved, resolved_str, truth, last>>

\* LoopStep that leaves the loop at the "/" entry instead of skipping it
LoopStepBreakOnRoot(t) ==
    /\ pc[t] = "loop"
    /\ idx[t] <= Len(order)
    /\ LET dangerous == order[idx[t]] IN
       IF dangerous = <<SL>>
       THEN /\ idx' = [idx EXCEPT ![t] = Len(order) + 1]
            /\ UNCHANGED <<pc, result>>
       ELSE IF resolved_str[t] = dangerous
       THEN /\ result' = [result EXCEPT ![t] = TRUE]
            /\ pc' = [pc EXCEPT ![t] = "done"]
            /\ UNCHANGED idx
       ELSE IF \/ StartsWith(resolved_str[t], dangerous \o <<SL>>)
               \/ StartsWith(resolved_str[t], dangerous \o <<BS>>)
       THEN /\ result' = [result EXCEPT ![t] = TRUE]
            /\ pc' = [pc EXCEPT ![t] = "done"]
            /\ UNCHANGED idx
       ELSE /\ idx' = [idx EXCEPT ![t] = idx[t] + 1]
            /\ UNCHANGED <<pc, result>>
    /\ UNCHANGED <<env, fs, path, resolved, resolved_str, truth, last>>

\* LoopStep with resolved_str kept in one module-level variable, written by
\* whichever call resolved last, instead of in the call's frame
SharedStr ==
    IF \E u \in Threads : pc[u] \in {"root", "loop"}
    THEN resolved_str[CHOOSE u \in Threads : pc[u] \in {"root", "loop"}]
    ELSE <<>>

LoopStepSharedLocal(t) ==
    /\ pc[t] = "loop"
    /\ idx[t] <= Len(order)
    /\ LET dangerous == order[idx[t]] IN
       IF dangerous = <<SL>>
       THEN /\ idx' = [idx EXCEPT ![t] = idx[t] + 1]
            /\ UNCHANGED <<pc, result>>
       ELSE IF SharedStr = dangerous
       THEN /\ result' = [result EXCEPT ![t] = TRUE]
            /\ pc' = [pc EXCEPT ![t] = "done"]
            /\ UNCHANGED idx
       ELSE IF \/ StartsWith(SharedStr, dangerous \o <<SL>>)
               \/ StartsWith(SharedStr, dangerous \o <<BS>>)
       THEN /\ result' = [result EXCEPT ![t] = TRUE]
            /\ pc' = [pc EXCEPT ![t] = "done"]
            /\ UNCHANGED idx
       ELSE /\ idx' = [idx EXCEPT ![t] = idx[t] + 1]
            /\ UNCHANGED <<pc, result>>
    /\ UNCHANGED <<env, fs, path, resolved, resolved_str, truth, last>>

\* one iteration of: for dangerous in DANGEROUS_PATHS
LoopStep(t) ==
    /\ pc[t] = "loop"
    /\ idx[t] <= Len(order)
    /\ LET dangerous == order[idx[t]] IN
       IF dangerous = <<SL>>
       THEN /\ idx' = [idx EXCEPT ![t] = idx[t] + 1]
            /\ UNCHANGED <<pc, result>>
       ELSE IF resolved_str[t] = dangerous
       THEN /\ result' = [result EXCEPT ![t] = TRUE]
            /\ pc' = [pc EXCEPT ![t] = "done"]
            /\ UNCHANGED idx
       ELSE IF \/ StartsWith(resolved_str[t], dangerous \o <<SL>>)
               \/ StartsWith(resolved_str[t], dangerous \o <<BS>>)
       THEN /\ result' = [result EXCEPT ![t] = TRUE]
            /\ pc' = [pc EXCEPT ![t] = "done"]
            /\ UNCHANGED idx
       ELSE /\ idx' = [idx EXCEPT ![t] = idx[t] + 1]
            /\ UNCHANGED <<pc, result>>
    /\ UNCHANGED <<env, fs, path, resolved, resolved_str, truth, last>>

\* the loop ran out: return False
ReturnSafe(t) ==
    /\ pc[t] = "loop"
    /\ idx[t] > Len(order)
    /\ result' = [result EXCEPT ![t] = FALSE]
    /\ pc' = [pc EXCEPT ![t] = "done"]
    /\ UNCHANGED <<env, fs, path, resolved, resolved_str, idx, truth, last>>

\* Except that fails open
ExceptFailOpen(t) ==
    /\ pc[t] = "except"
    /\ result' = [result EXCEPT ![t] = FALSE]
    /\ pc' = [pc EXCEPT ![t] = "done"]
    /\ UNCHANGED <<env, fs, path, resolved, resolved_str, idx, truth, last>>

\* except Exception: return True
Except(t) ==
    /\ pc[t] = "except"
    /\ result' = [result EXCEPT ![t] = TRUE]
    /\ pc' = [pc EXCEPT ![t] = "done"]
    /\ UNCHANGED <<env, fs, path, resolved, resolved_str, idx, truth, last>>

\* the caller takes the verdict; the call's locals are discarded
Return(t) ==
    /\ pc[t] = "done"
    /\ last' = [valid |-> TRUE, path |-> path[t], truth |-> truth[t],
                verdict |-> result[t]]
    /\ pc' = [pc EXCEPT ![t] = "idle"]
    /\ path' = [path EXCEPT ![t] = <<>>]
    /\ resolved' = [resolved EXCEPT ![t] = Failed]
    /\ resolved_str' = [resolved_str EXCEPT ![t] = <<>>]
    /\ idx' = [idx EXCEPT ![t] = 0]
    /\ result' = [result EXCEPT ![t] = FALSE]
    /\ truth' = [truth EXCEPT ![t] = Failed]
    /\ UNCHANGED <<env, fs>>

\* the filesystem changes under the process (a link is created or retargeted)
Retarget ==
    /\ \E f \in Layouts(host) \ {fs} : fs' = f
    /\ UNCHANGED <<env, pc, path, resolved, resolved_str, idx, result, truth, last>>

Next ==
    \/ \E t \in Threads : \E p \in Candidates : Call(t, p)
    \/ \E t \in Threads : ResolveStep(t)
    \/ \E t \in Threads : CheckRoot(t)
    \/ \E t \in Threads : LoopStep(t)
    \/ \E t \in Threads : ReturnSafe(t)
    \/ \E t \in Threads : Except(t)
    \/ \E t \in Threads : Return(t)
    \/ Retarget

Spec == Init /\ [][Next]_vars
SpecConc == InitConc /\ [][Next]_vars

(***************************************************************************)
(* is_dangerous_path as a function: the call run alone, start to end       *)
(***************************************************************************)
RECURSIVE Scan(_, _, _)
Scan(ord, s, i) ==
    IF i > Len(ord) THEN FALSE
    ELSE LET dangerous == ord[i] IN
         IF dangerous = <<SL>> THEN Scan(ord, s, i + 1)
         ELSE IF s = dangerous THEN TRUE
         ELSE IF StartsWith(s, dangerous \o <<SL>>) \/ StartsWith(s, dangerous \o <<BS>>)
              THEN TRUE
         ELSE Scan(ord, s, i + 1)

Verdict(h, ord, r) ==
    IF ~r.ok THEN TRUE
    ELSE IF Parent(r) = r THEN TRUE
    ELSE Scan(ord, Str(h, r), 1)

is_dangerous_path(h, f, ord, text) == Verdict(h, ord, Resolve(h, f, text))

(***************************************************************************)
(* Notions the properties are stated in                                    *)
(***************************************************************************)
Done(t) == pc[t] = "done"
Resolved(t) == pc[t] \in {"root", "loop", "done"} /\ truth[t].ok

IsPrefix(a, b) == Len(a) <= Len(b) /\ SubSeq(b, 1, Len(a)) = a
NonEmpty(c) == c # <<>>

\* a denylist entry read as an absolute path of the host; Failed when the
\* entry is not an absolute path there
EntryPath(h, d) ==
    IF h = "nt"
    THEN IF HasDrive(d) /\ Len(d) >= 3 /\ d[3] \in {SL, BS}
         THEN MkPath(<<Upper(d[1]), ":", BS>>,
                     SelectSeq(Split(SubSeq(d, 3, Len(d)), {SL, BS}), NonEmpty))
         ELSE Failed
    ELSE IF StartsWith(d, <<SL>>)
         THEN MkPath(<<SL>>, SelectSeq(Split(d, {SL}), NonEmpty))
         ELSE Failed

\* r is the entry d or lies under it, component by component; the root
\* entries contain everything and are not counted
Under(h, r, d) ==
    LET e == EntryPath(h, d) IN
    /\ e.ok /\ e.parts # <<>>
    /\ e.anchor = r.anchor
    /\ IsPrefix(e.parts, r.parts)

\* the same, names compared without regard to letter case
LowerParts(ps) == [i \in 1..Len(ps) |-> LowerStr(ps[i])]
UnderFolded(h, r, d) ==
    LET e == EntryPath(h, d) IN
    /\ e.ok /\ e.parts # <<>>
    /\ LowerStr(e.anchor) = LowerStr(r.anchor)
    /\ IsPrefix(LowerParts(e.parts), LowerParts(r.parts))

\* text is d + separator + s for a non-empty relative s
SubdirText(h, text, d) ==
    /\ StartsWith(text, d \o <<HostSep(h)>>)
    /\ Len(text) > Len(d) + 1
    /\ text[Len(d) + 2] \notin {SL, BS}

\* what one loop iteration tests, as a relation between string and entry
Match(s, d) == s = d \/ StartsWith(s, d \o <<SL>>) \/ StartsWith(s, d \o <<BS>>)

\* the verdict as a function of the resolution and the set, with no order
Danger(h, r) ==
    \/ ~r.ok
    \/ r.parts = <<>>
    \/ \E d \in DANGEROUS_PATHS \ {<<SL>>} : Match(Str(h, r), d)

(***************************************************************************)
(* C1: for every denylist entry d and every non-empty relative suffix s,   *)
(* the call on d + separator + s returns True.                             *)
(***************************************************************************)
C1_SubdirAlwaysDangerous ==
    \A t \in Threads : \A d \in DANGEROUS_PATHS :
        Done(t) /\ SubdirText(host, path[t], d) => result[t] = TRUE

(***************************************************************************)
(* C2: for every denylist entry d other than "/", the call on d returns    *)
(* True, on whichever host it runs.                                        *)
(***************************************************************************)
C2_EveryEntryDangerous ==
    \A t \in Threads :
        Done(t) /\ path[t] \in DANGEROUS_PATHS \ {<<SL>>} => result[t] = TRUE

(***************************************************************************)
(* C3: a path whose resolved form is neither a root, nor an entry, nor     *)
(* under an entry component by component, gets False.                      *)
(***************************************************************************)
C3_OutsideIsSafe ==
    \A t \in Threads :
        (/\ Done(t) /\ truth[t].ok /\ truth[t].parts # <<>>
         /\ \A d \in DANGEROUS_PATHS : ~Under(host, truth[t], d))
        => result[t] = FALSE

(***************************************************************************)
(* C4: a call whose resolution fails ends in the handler and returns True; *)
(* it never leaves by an exception and never returns False.                *)
(***************************************************************************)
C4_FailClosed ==
    \A t \in Threads :
        /\ pc[t] \in {"idle", "resolve", "root", "loop", "except", "done"}
        /\ pc[t] = "except" => ~truth[t].ok
        /\ Done(t) /\ ~truth[t].ok => result[t] = TRUE

C4_Witness ==
    \E t \in Threads : Done(t) /\ path[t] # <<>> /\ ~truth[t].ok /\ result[t] = TRUE

(***************************************************************************)
(* C5: a call whose resolved path is its own parent returns True from the  *)
(* root check: it never enters the loop and examines no entry.             *)
(***************************************************************************)
C5_RootDangerous ==
    \A t \in Threads :
        Resolved(t) /\ Parent(resolved[t]) = resolved[t] /\ pc[t] # "root"
        => Done(t) /\ result[t] = TRUE /\ idx[t] = 0

C5_Witness ==
    \E t \in Threads :
        /\ Done(t) /\ truth[t].ok /\ Parent(resolved[t]) = resolved[t]
        /\ result[t] = TRUE /\ idx[t] = 0

(***************************************************************************)
(* C6: the verdict depends on the resolution only: a call whose candidate  *)
(* resolves to what the previous call's candidate resolved to gets the     *)
(* same verdict, and a candidate that resolves to an entry or under one    *)
(* gets True whatever its text.                                            *)
(***************************************************************************)
C6_VerdictByResolvedPath ==
    \A t \in Threads :
        /\ Done(t) /\ last.valid /\ last.truth = truth[t] => result[t] = last.verdict
        /\ (Done(t) /\ truth[t].ok /\ \E d \in DANGEROUS_PATHS : Under(host, truth[t], d))
           => result[t] = TRUE

C6_Witness ==
    \E t \in Threads :
        /\ Done(t) /\ last.valid /\ truth[t].ok /\ last.truth = truth[t]
        /\ last.path = P(<<etc, passwd>>)
        /\ path[t] \in {P(<<tmp, dotdot, etc, passwd>>), P(<<tmp, link, passwd>>),
                        Join(<<dotdot, dotdot, etc, passwd>>, SL)}
        /\ result[t] = TRUE

(***************************************************************************)
(* C7: on a Windows host a resolved path that is an entry or under one up  *)
(* to letter case gets True, and C:\Windows2 gets False.                   *)
(***************************************************************************)
C7_CaseInsensitiveOnWindows ==
    \A t \in Threads :
        /\ (/\ host = "nt" /\ Done(t) /\ truth[t].ok
            /\ \E d \in DANGEROUS_PATHS : UnderFolded(host, truth[t], d))
           => result[t] = TRUE
        /\ host = "nt" /\ Done(t) /\ path[t] = W(<<Windows2>>) => result[t] = FALSE

(***************************************************************************)
(* C8: the verdict of a finished call is the one the set determines, with  *)
(* no reference to the order the process iterates it in, and both module   *)
(* sets hold what the source wrote, during and after every call.           *)
(***************************************************************************)
C8_OrderIndependentNoSideEffect ==
    /\ DANGEROUS_PATHS = DangerousPathsInit
    /\ EXCLUDED_DIRS = ExcludedDirsInit
    /\ \A t \in Threads : Done(t) => result[t] = Danger(host, truth[t])

C8_Witness ==
    \E t \in Threads :
        /\ Done(t) /\ truth[t].ok /\ result[t] = TRUE
        /\ \E i \in 1..(idx[t] - 1) : order[i] = <<SL>>
        /\ DANGEROUS_PATHS = DangerousPathsInit

(***************************************************************************)
(* C9: with two calls in flight, each call's locals are the ones it        *)
(* computed itself and its verdict is the one the call returns when run    *)
(* alone on what its candidate resolved to.                                *)
(***************************************************************************)
C9_ConcurrentCallsIndependent ==
    \A t \in Threads :
        /\ Resolved(t) => /\ resolved[t] = truth[t]
                          /\ resolved_str[t] = Str(host, truth[t])
        /\ Done(t) => result[t] = Verdict(host, order, truth[t])

C9_Witness ==
    /\ Done(1) /\ pc[2] = "loop" /\ idx[2] > 1
    /\ truth[1].ok /\ truth[2].ok /\ truth[1] # truth[2]
    /\ result[1] = TRUE /\ ~Verdict(host, order, truth[2])

(***************************************************************************)
(* C10: a call on the candidate the previous call was made on gets the     *)
(* verdict of what the candidate resolves to now, whatever the previous    *)
(* call returned.                                                          *)
(***************************************************************************)
C10_NoCachedVerdict ==
    \A t \in Threads :
        Done(t) /\ last.valid /\ last.path = path[t]
        => (result[t] = TRUE <=> Danger(host, truth[t]))

C10_Witness ==
    \E t \in Threads :
        /\ Done(t) /\ last.valid /\ last.path = path[t]
        /\ last.truth # truth[t] /\ last.verdict # result[t]

====
